---------------------------- MODULE Spec2Model ----------------------------
(***************************************************************************)
(* tw-hipster (src/cli.js): the JDL parser parseJdl, the type mapper       *)
(* getTsType and the generation driver run / generateEntityFiles /         *)
(* generateEnumFile.                                                       *)
(*                                                                         *)
(* A document is a text, a sequence of UTF-16 code units as a JavaScript   *)
(* string is.  A text is written in ASCII: a character of U+0000..U+007F   *)
(* other than the backslash stands for itself, and every other code unit,  *)
(* the backslash included, is written as the six characters \uXXXX, its    *)
(* number in four hexadecimal digits (U+00A0 is \u00A0, the backslash is   *)
(* \u005C).  The texts of a result are written the same way, the digits    *)
(* of an escape in upper case.                                             *)
(*                                                                         *)
(* parseJdl removes the block comments from the text and the patterns of   *)
(* cli.js are matched on what is left, cut into tokens: a maximal run of   *)
(* \w characters is a token and every other code unit is a token of its    *)
(* own.  The patterns demand \s after "enum", "entity" and "relationship", *)
(* so these literals match at the end of a run only: a run that ends with  *)
(* one of them is cut in two before it, and a \w+ of a pattern runs over   *)
(* adjacent word tokens.  Every other literal of a pattern stands between  *)
(* \s, "@", "{" or "}" and is a whole run.                                 *)
(***************************************************************************)
EXTENDS Naturals, Sequences, FiniteSets, TLC

VARIABLES
    items,          \* the document as written: indices into Item
    doc,            \* jdlContent: the document's text
    pc,             \* position of the program
    entities,       \* parseJdl(...).entities
    enums,          \* parseJdl(...).enums
    relationships,  \* parseJdl(...).relationships
    tsType,         \* field.tsType of every field object that has one
    wrote,          \* per field object, the tasks that assigned to it
    read,           \* per field object, the tasks whose rendering reads it
    tpc,            \* per generation task, its position
    tk,             \* per generation task, the calls of ejs.renderFile made
    ctx,            \* per generation task, its render context
    files,          \* the files written
    running         \* the task whose synchronous part is executing, or 0

vars == <<items, doc, pc, entities, enums, relationships, tsType, wrote,
          read, tpc, tk, ctx, files, running>>

-----------------------------------------------------------------------------
(* Characters and strings *)

SP == " "
NL == "\n"
CR == "\r"

\* the vertical tab U+000B, written as the character
VT == ""

\* the line separator U+2028 and the paragraph separator U+2029
LS == "\\u2028"
PS == "\\u2029"

\* the white space above U+007F: U+00A0, U+1680, U+2000..U+200A, U+202F,
\* U+205F, U+3000, U+FEFF
UnicodeSpaces ==
    {"\\u00A0", "\\u1680", "\\u2000", "\\u2001", "\\u2002", "\\u2003",
     "\\u2004", "\\u2005", "\\u2006", "\\u2007", "\\u2008", "\\u2009",
     "\\u200A", "\\u202F", "\\u205F", "\\u3000", "\\uFEFF"}

\* the line terminators of JavaScript: what . of a pattern does not match
LineTerminators == {NL, CR, LS, PS}

\* the white space and line terminators of ASCII
AsciiSpaces == {SP, NL, CR, "\t", "\f", VT}

\* JavaScript \s, and what String.prototype.trim removes: white space and
\* line terminators
WhiteSpace == AsciiSpaces \cup {LS, PS} \cup UnicodeSpaces

\* a token is a character of WhiteSpace: one of ASCII, or an escape
IsWs(t) == t \in AsciiSpaces \/ (Len(t) = 6 /\ t \in WhiteSpace)

Alphanumerics ==
    "ABCDEFGHIJKLMNOPQRSTUVWXYZabcdefghijklmnopqrstuvwxyz0123456789_"

\* JavaScript \w
WordChars == {SubSeq(Alphanumerics, i, i) : i \in 1..Len(Alphanumerics)}

\* a token that is a run of \w characters (a token is never empty)
IsWord(t) == SubSeq(t, 1, 1) \in WordChars

\* the character class [\w<>]
IsTypeChar(t) == IsWord(t) \/ t \in {"<", ">"}

\* the character at position k of a text
At(str, k) == SubSeq(str, k, k)

\* String.prototype.indexOf(p, i): the first position >= i where p stands, or 0
IndexOf(str, p, i) ==
    LET last == Len(str) - Len(p) + 1
    IN  IF \E k \in i..last : SubSeq(str, k, k + Len(p) - 1) = p
        THEN CHOOSE k \in i..last :
                 /\ SubSeq(str, k, k + Len(p) - 1) = p
                 /\ \A j \in i..(k - 1) : SubSeq(str, j, j + Len(p) - 1) # p
        ELSE 0

\* String.prototype.startsWith / endsWith
StartsWith(str, p) == Len(str) >= Len(p) /\ SubSeq(str, 1, Len(p)) = p
EndsWith(str, p) ==
    Len(str) >= Len(p) /\ SubSeq(str, Len(str) - Len(p) + 1, Len(str)) = p

RECURSIVE Join(_)
\* the text of a sequence of characters or tokens: the texts of its two
\* halves, one after the other
Join(s) ==
    IF Len(s) = 0 THEN ""
    ELSE IF Len(s) = 1 THEN s[1]
    ELSE Join(SubSeq(s, 1, Len(s) \div 2))
             \o Join(SubSeq(s, Len(s) \div 2 + 1, Len(s)))

RECURSIVE SkipWs(_, _)
\* the end of a greedy \s* that starts at i
SkipWs(s, i) == IF i <= Len(s) /\ IsWs(s[i]) THEN SkipWs(s, i + 1) ELSE i

RECURSIVE WordEnd(_, _)
\* the end of a greedy \w+ that starts at i
WordEnd(s, i) == IF i <= Len(s) /\ IsWord(s[i]) THEN WordEnd(s, i + 1) ELSE i

RECURSIVE TypeEnd(_, _)
\* the end of a greedy [\w<>]+ that starts at i
TypeEnd(s, i) == IF i <= Len(s) /\ IsTypeChar(s[i]) THEN TypeEnd(s, i + 1) ELSE i

\* the first position >= i that holds t, or 0
FindTok(s, i, t) ==
    IF \E k \in i..Len(s) : s[k] = t
    THEN CHOOSE k \in i..Len(s) : s[k] = t /\ \A j \in i..(k - 1) : s[j] # t
    ELSE 0

\* the first position >= i that holds a token of T, or 0
FindIn(s, i, T) ==
    IF \E k \in i..Len(s) : s[k] \in T
    THEN CHOOSE k \in i..Len(s) : s[k] \in T /\ \A j \in i..(k - 1) : s[j] \notin T
    ELSE 0

\* the first position >= i that holds a followed by b, or 0
FindPair(s, i, a, b) ==
    IF \E k \in i..(Len(s) - 1) : s[k] = a /\ s[k + 1] = b
    THEN CHOOSE k \in i..(Len(s) - 1) :
             /\ s[k] = a /\ s[k + 1] = b
             /\ \A j \in i..(k - 1) : ~(s[j] = a /\ s[j + 1] = b)
    ELSE 0

\* String.prototype.lastIndexOf(t, i): the last position <= i that holds t, or 0
LastTokUpTo(s, i, t) ==
    LET last == IF i <= Len(s) THEN i ELSE Len(s)
    IN  IF \E k \in 1..last : s[k] = t
        THEN CHOOSE k \in 1..last : s[k] = t /\ \A j \in (k + 1)..last : s[j] # t
        ELSE 0

RECURSIVE TrimLeft(_)
TrimLeft(s) == IF s # <<>> /\ IsWs(Head(s)) THEN TrimLeft(Tail(s)) ELSE s

RECURSIVE TrimRight(_)
TrimRight(s) ==
    IF s # <<>> /\ IsWs(s[Len(s)]) THEN TrimRight(SubSeq(s, 1, Len(s) - 1)) ELSE s

\* String.prototype.trim
Trim(s) == TrimRight(TrimLeft(s))

\* String.prototype.startsWith('//')
StartsWithSlashes(s) == Len(s) >= 2 /\ s[1] = "/" /\ s[2] = "/"

RECURSIVE SplitOn(_, _)
\* String.prototype.split(t) for a one-character separator t
SplitOn(s, t) ==
    LET p == FindTok(s, 1, t)
    IN  IF p = 0 THEN <<s>>
        ELSE <<SubSeq(s, 1, p - 1)>> \o SplitOn(SubSeq(s, p + 1, Len(s)), t)

RECURSIVE SplitWs(_)
\* split(/\s+/).filter(Boolean): the texts of the maximal runs of non-whitespace
SplitWs(s) ==
    LET a == TrimLeft(s)
        RECURSIVE RunEnd(_)
        RunEnd(i) == IF i <= Len(a) /\ ~IsWs(a[i]) THEN RunEnd(i + 1) ELSE i
    IN  IF a = <<>> THEN <<>>
        ELSE <<Join(SubSeq(a, 1, RunEnd(1) - 1))>>
                 \o SplitWs(SubSeq(a, RunEnd(1), Len(a)))

-----------------------------------------------------------------------------
(* Comments and tokens *)

RECURSIVE StripBlockComments(_)
\* jdlContent.replace(/\/\*[\s\S]*?\*\//g, ''): the leftmost "/*", the first
\* "*/" that starts at least two characters later, and so on after it; what
\* stood on the two sides of a comment is adjacent in the result
StripBlockComments(str) ==
    LET open == IndexOf(str, "/*", 1)
        close == IF open = 0 THEN 0 ELSE IndexOf(str, "*/", open + 2)
    IN  IF close = 0 THEN str
        ELSE SubSeq(str, 1, open - 1)
                 \o StripBlockComments(SubSeq(str, close + 2, Len(str)))

\* the literals the patterns start with
Keywords == {"enum", "entity", "relationship"}

\* a run of \w characters as tokens: cut before the keyword it ends with
CutKeyword(run) ==
    IF \E k \in Keywords : EndsWith(run, k) /\ Len(run) > Len(k)
    THEN LET k == CHOOSE k \in Keywords : EndsWith(run, k)
         IN  <<SubSeq(run, 1, Len(run) - Len(k)), k>>
    ELSE <<run>>

HexDigits == "0123456789ABCDEF"
LowerHexDigits == "0123456789abcdef"

\* the hexadecimal digits, in either case
HexChars ==
    {At(HexDigits, d) : d \in 1..16} \cup {At(LowerHexDigits, d) : d \in 1..16}

\* a hexadecimal digit in upper case, or "" for any other character
UpperHex(c) ==
    IF \E d \in 1..16 : c \in {At(HexDigits, d), At(LowerHexDigits, d)}
    THEN At(HexDigits, CHOOSE d \in 1..16 :
                          c \in {At(HexDigits, d), At(LowerHexDigits, d)})
    ELSE ""

\* the escape of a code unit starts at position p of a text
IsEscapeAt(str, p) ==
    /\ p >= 1
    /\ p + 5 <= Len(str)
    /\ SubSeq(str, p, p + 1) = "\\u"
    /\ \A j \in 2..5 : At(str, p + j) \in HexChars

\* the escape that starts at position p, its digits in upper case
EscapeAt(str, p) ==
    "\\u" \o UpperHex(At(str, p + 2)) \o UpperHex(At(str, p + 3))
          \o UpperHex(At(str, p + 4)) \o UpperHex(At(str, p + 5))

\* position k of a text is inside an escape, after its backslash: it holds
\* the u or one of the four digits
InEscape(str, k) ==
    IF At(str, k) = "u" THEN IsEscapeAt(str, k - 1)
    ELSE At(str, k) \in HexChars /\ \E j \in 2..5 : IsEscapeAt(str, k - j)

\* position k of a text holds a \w character; esc says that the text holds
\* a backslash
IsWordAt(str, esc, k) ==
    At(str, k) \in WordChars /\ ~(esc /\ InEscape(str, k))

RECURSIVE RunEnd(_, _, _)
\* the end of the run of \w characters that starts at position i of a text
RunEnd(str, esc, i) ==
    IF i <= Len(str) /\ IsWordAt(str, esc, i) THEN RunEnd(str, esc, i + 1)
    ELSE i

\* a token starts at position b > 1 of a text
IsBoundary(str, esc, b) ==
    IF IsWordAt(str, esc, b) THEN ~IsWordAt(str, esc, b - 1)
    ELSE ~(esc /\ InEscape(str, b))

RECURSIVE Tokenize(_, _, _, _)
\* the tokens of the characters lo..hi of a text, where a token starts at lo
\* and one ends at hi.  A long stretch is cut at a token boundary b near its
\* middle; a short one is read token by token from the left: a run of \w
\* characters, the escape of a code unit, or one other character.
Tokenize(str, esc, lo, hi) ==
    LET mid == (lo + hi + 1) \div 2
        b == IF \E k \in mid..hi : IsBoundary(str, esc, k)
             THEN CHOOSE k \in mid..hi :
                      IsBoundary(str, esc, k)
                          /\ \A j \in mid..(k - 1) : ~IsBoundary(str, esc, j)
             ELSE CHOOSE k \in (lo + 1)..(mid - 1) :
                      IsBoundary(str, esc, k)
                          /\ \A j \in (k + 1)..(mid - 1) :
                                 ~IsBoundary(str, esc, j)
        e == RunEnd(str, esc, lo)
    IN  IF lo > hi THEN <<>>
        ELSE IF hi - lo >= 32 /\ \E k \in (lo + 1)..hi : IsBoundary(str, esc, k)
        THEN Tokenize(str, esc, lo, b - 1) \o Tokenize(str, esc, b, hi)
        ELSE IF e > lo
        THEN CutKeyword(SubSeq(str, lo, e - 1)) \o Tokenize(str, esc, e, hi)
        ELSE IF esc /\ IsEscapeAt(str, lo)
        THEN <<EscapeAt(str, lo)>> \o Tokenize(str, esc, lo + 6, hi)
        ELSE <<At(str, lo)>> \o Tokenize(str, esc, lo + 1, hi)

\* the tokens of a text
Tokens(str) == Tokenize(str, IndexOf(str, "\\", 1) # 0, 1, Len(str))

\* isCommented(content, index): the text between the start of index's line
\* and index, trimmed, starts with "//"
isCommented(content, index) ==
    LET lastNewline == LastTokUpTo(content, index, NL)
        lineStart == lastNewline + 1
        line == SubSeq(content, lineStart, index - 1)
    IN  StartsWithSlashes(Trim(line))

-----------------------------------------------------------------------------
(* JavaScript values *)

\* null / undefined, and a present value
Null == <<>>
Some(x) == <<x>>

\* the property names every object inherits from Object.prototype; the value
\* of each is an object or a function, hence truthy
ObjectPrototypeKeys ==
    {"constructor", "hasOwnProperty", "isPrototypeOf", "propertyIsEnumerable",
     "toLocaleString", "toString", "valueOf", "__proto__", "__defineGetter__",
     "__defineSetter__", "__lookupGetter__", "__lookupSetter__"}

Digits == "0123456789"

IsDigit(c) == \E d \in 1..Len(Digits) : SubSeq(Digits, d, d) = c

DigitOf(c) == CHOOSE d \in 1..Len(Digits) : SubSeq(Digits, d, d) = c

\* a < b for two canonical numeric strings (no leading zero)
NumLess(a, b) ==
    \/ Len(a) < Len(b)
    \/ /\ Len(a) = Len(b)
       /\ \E i \in 1..Len(a) :
              /\ SubSeq(a, 1, i - 1) = SubSeq(b, 1, i - 1)
              /\ DigitOf(SubSeq(a, i, i)) < DigitOf(SubSeq(b, i, i))

\* the largest array index, 2^32 - 2
MaxArrayIndex == "4294967294"

\* a property key that is an array index: a canonical numeric string of at
\* most MaxArrayIndex
IsArrayIndex(key) ==
    /\ Len(key) > 0
    /\ \A i \in 1..Len(key) : IsDigit(SubSeq(key, i, i))
    /\ Len(key) = 1 \/ SubSeq(key, 1, 1) # "0"
    /\ ~NumLess(MaxArrayIndex, key)

\* const obj = {}: no own property, the prototype it was created with.  own
\* holds the values of the own properties in the order of Object.values;
\* proto is the object the prototype was replaced by, if it was
EmptyObject == [own |-> <<>>, proto |-> Null]

\* obj[rec.name] = rec.  An existing key keeps its place and takes the new
\* value.  A new key that is an array index goes among the array indices, in
\* ascending numeric order, and these come before all other keys; any other
\* new key goes last.  Assigning an object to "__proto__" creates no property
\* and replaces the prototype.
Put(obj, rec) ==
    LET own == obj.own
        key == rec.name
        below == {k \in DOMAIN own : /\ IsArrayIndex(own[k].name)
                                     /\ NumLess(own[k].name, key)}
        n == Cardinality(below)
    IN  IF key = "__proto__" THEN [obj EXCEPT !.proto = Some(rec)]
        ELSE IF \E k \in DOMAIN own : own[k].name = key
        THEN [obj EXCEPT !.own = [k \in DOMAIN own |->
                                    IF own[k].name = key THEN rec ELSE own[k]]]
        ELSE IF IsArrayIndex(key)
        THEN [obj EXCEPT !.own = SubSeq(own, 1, n) \o <<rec>>
                                     \o SubSeq(own, n + 1, Len(own))]
        ELSE [obj EXCEPT !.own = Append(own, rec)]

\* Object.values(obj)
ObjectValues(obj) == obj.own

\* !!obj[key]: an own property (a record, truthy), a property of the object
\* that replaced the prototype (a name or an array, truthy), or a property
\* of Object.prototype, where every prototype chain ends
Truthy(obj, key) ==
    \/ \E k \in DOMAIN obj.own : obj.own[k].name = key
    \/ obj.proto # Null /\ key \in DOMAIN obj.proto[1]
    \/ key \in ObjectPrototypeKeys

-----------------------------------------------------------------------------
(* 1. Enums *)

NoMatch == [ok |-> FALSE]

\* one attempt of /enum\s+(\w+)\s*\{([^}]+)\}/ at position i
EnumMatchAt(s, i) ==
    LET n1 == SkipWs(s, i + 1)
        n2 == WordEnd(s, n1)
        b1 == SkipWs(s, n2)
        b2 == FindTok(s, b1 + 1, "}")
    IN  IF /\ i <= Len(s) /\ s[i] = "enum"
           /\ n1 > i + 1
           /\ n2 > n1
           /\ b1 <= Len(s) /\ s[b1] = "{"
           /\ b2 > b1 + 1
        THEN [ok |-> TRUE, name |-> Join(SubSeq(s, n1, n2 - 1)),
              body |-> SubSeq(s, b1 + 1, b2 - 1), end |-> b2 + 1]
        ELSE NoMatch

RECURSIVE EnumValueNames(_)
\* .map(v => v.trim().split('(')[0].trim()).filter(Boolean) over the pieces
EnumValueNames(pieces) ==
    IF pieces = <<>> THEN <<>>
    ELSE LET v == Join(Trim(SplitOn(Trim(Head(pieces)), "(")[1]))
         IN  (IF v = "" THEN <<>> ELSE <<[name |-> v]>>)
                 \o EnumValueNames(Tail(pieces))

\* enumMatch[2].trim().split(',') ... .map(v => ({ name: v }))
EnumValues(body) == EnumValueNames(SplitOn(Trim(body), ","))

RECURSIVE ParseEnums(_, _, _)
\* the while loop over enumRegex.exec(cleanContent), from lastIndex, on the
\* object enums
ParseEnums(s, lastIndex, acc) ==
    LET i == FindTok(s, lastIndex, "enum")
        m == EnumMatchAt(s, i)
    IN  IF i = 0 THEN acc
        ELSE IF ~m.ok THEN ParseEnums(s, i + 1, acc)
        ELSE IF isCommented(s, i) THEN ParseEnums(s, m.end, acc)
        ELSE ParseEnums(s, m.end,
                 Put(acc, [name |-> m.name, values |-> EnumValues(m.body)]))

-----------------------------------------------------------------------------
(* 2. Entities *)

\* AUDIT_FIELDS: four objects of the module, identified by oid <<0, k>>
AUDIT_FIELDS ==
    << [oid |-> <<0, 1>>, fieldName |-> "createdBy", fieldType |-> "String",
        fieldTypeIsEnum |-> FALSE, fieldValidateRules |-> <<>>, comment |-> Null],
       [oid |-> <<0, 2>>, fieldName |-> "createdDate", fieldType |-> "Instant",
        fieldTypeIsEnum |-> FALSE, fieldValidateRules |-> <<>>, comment |-> Null],
       [oid |-> <<0, 3>>, fieldName |-> "lastModifiedBy", fieldType |-> "String",
        fieldTypeIsEnum |-> FALSE, fieldValidateRules |-> <<>>, comment |-> Null],
       [oid |-> <<0, 4>>, fieldName |-> "lastModifiedDate", fieldType |-> "Instant",
        fieldTypeIsEnum |-> FALSE, fieldValidateRules |-> <<>>, comment |-> Null] >>

\* /entity\s+(\w+)\s*\{([^}]+)\}/ at position i
EntityCoreAt(s, i) ==
    LET n1 == SkipWs(s, i + 1)
        n2 == WordEnd(s, n1)
        b1 == SkipWs(s, n2)
        b2 == FindTok(s, b1 + 1, "}")
    IN  IF /\ i <= Len(s) /\ s[i] = "entity"
           /\ n1 > i + 1
           /\ n2 > n1
           /\ b1 <= Len(s) /\ s[b1] = "{"
           /\ b2 > b1 + 1
        THEN [ok |-> TRUE, name |-> Join(SubSeq(s, n1, n2 - 1)),
              body |-> SubSeq(s, b1 + 1, b2 - 1), end |-> b2 + 1]
        ELSE NoMatch

\* hasAuditAnnotation with the annotation never recognised
hasAuditAnnotation_never(match) == FALSE

\* entityMatch[0].trim().startsWith('@EnableAudit')
hasAuditAnnotation(match) ==
    LET m == Trim(match)
    IN  Len(m) >= 2 /\ m[1] = "@" /\ StartsWith(m[2], "EnableAudit")

\* one attempt of /(?:@EnableAudit\s+)?entity\s+(\w+)\s*\{([^}]+)\}/ at i:
\* with the optional group when it leads to a match, else without it
EntityMatchAt(s, i) ==
    LET e1 == SkipWs(s, i + 2)
        withGroup == IF /\ i + 1 <= Len(s)
                        /\ s[i] = "@" /\ s[i + 1] = "EnableAudit"
                        /\ e1 > i + 2
                     THEN EntityCoreAt(s, e1) ELSE NoMatch
        m == IF withGroup.ok THEN withGroup ELSE EntityCoreAt(s, i)
    IN  IF m.ok
        THEN [ok |-> TRUE, name |-> m.name, body |-> m.body, end |-> m.end,
              audit |-> hasAuditAnnotation(SubSeq(s, i, m.end - 1))]
        ELSE NoMatch

\* the field a line declares (as a sequence of at most one field): the line
\* against /^(\w+)\s+([\w<>]+)(.*)/, where . stops at a line terminator,
\* then the inline comment and the rules
ParseField(line, enumObj, oid) ==
    LET e1 == WordEnd(line, 1)
        e2 == SkipWs(line, e1)
        e3 == TypeEnd(line, e2)
        lt == FindIn(line, e3, LineTerminators)
        restOfLine == SubSeq(line, e3, IF lt = 0 THEN Len(line) ELSE lt - 1)
        commentIndex == FindPair(restOfLine, 1, "/", "/")
        validations == IF commentIndex # 0
                       THEN Trim(SubSeq(restOfLine, 1, commentIndex - 1))
                       ELSE restOfLine
        comment == IF commentIndex # 0
                   THEN Some(Join(Trim(SubSeq(restOfLine, commentIndex + 2,
                                              Len(restOfLine)))))
                   ELSE Null
        fieldType == Join(SubSeq(line, e2, e3 - 1))
    IN  IF e1 > 1 /\ e2 > e1 /\ e3 > e2
        THEN << [oid |-> oid,
                 fieldName |-> Join(SubSeq(line, 1, e1 - 1)),
                 fieldType |-> fieldType,
                 fieldTypeIsEnum |-> Truthy(enumObj, fieldType),
                 fieldValidateRules |-> SplitWs(validations),
                 comment |-> comment] >>
        ELSE <<>>

RECURSIVE FieldLines(_)
\* .map(l => l.trim()).filter(line => line && !line.startsWith('//'))
FieldLines(lines) ==
    IF lines = <<>> THEN <<>>
    ELSE LET l == Trim(Head(lines))
         IN  (IF l # <<>> /\ ~StartsWithSlashes(l) THEN <<l>> ELSE <<>>)
                 \o FieldLines(Tail(lines))

RECURSIVE ParseFieldLines(_, _, _, _)
\* fieldLines.forEach(...): the k-th line of the entity matched at position at
\* makes the field object <<at, k>>
ParseFieldLines(lines, k, enumObj, at) ==
    IF k > Len(lines) THEN <<>>
    ELSE ParseField(lines[k], enumObj, <<at, k>>)
             \o ParseFieldLines(lines, k + 1, enumObj, at)

\* the body of the loop for one uncommented match m at position at
EntityOf(m, enumObj, at) ==
    LET fieldLines == FieldLines(SplitOn(m.body, NL))
        fields == ParseFieldLines(fieldLines, 1, enumObj, at)
    IN  [name |-> m.name,
         fields |-> IF m.audit THEN fields \o AUDIT_FIELDS ELSE fields]

\* the next position >= i that holds "entity" or "@", or 0
NextEntityStart(s, i) ==
    LET a == FindTok(s, i, "entity")
        b == FindTok(s, i, "@")
    IN  IF a = 0 THEN b ELSE IF b = 0 THEN a ELSE IF a < b THEN a ELSE b

RECURSIVE ParseEntities(_, _, _, _)
\* the while loop over entityRegex.exec(cleanContent), from lastIndex, on the
\* object entities
ParseEntities(s, lastIndex, enumObj, acc) ==
    LET i == NextEntityStart(s, lastIndex)
        m == EntityMatchAt(s, i)
    IN  IF i = 0 THEN acc
        ELSE IF ~m.ok THEN ParseEntities(s, i + 1, enumObj, acc)
        ELSE IF isCommented(s, i) THEN ParseEntities(s, m.end, enumObj, acc)
        ELSE ParseEntities(s, m.end, enumObj, Put(acc, EntityOf(m, enumObj, i)))

-----------------------------------------------------------------------------
(* 3. Relationships *)

Cardinalities == {"OneToOne", "ManyToOne", "OneToMany", "ManyToMany"}

\* (\w+)(?:\((\w+)\))? at position i: an endpoint and the position after it
EndpointAt(s, i) ==
    LET e == WordEnd(s, i)
        f == WordEnd(s, e + 1)
        role == e <= Len(s) /\ s[e] = "(" /\ f > e + 1
                    /\ f <= Len(s) /\ s[f] = ")"
    IN  IF e > i
        THEN [ok |-> TRUE,
              name |-> Join(SubSeq(s, i, e - 1)),
              fieldName |-> IF role THEN Some(Join(SubSeq(s, e + 1, f - 1)))
                            ELSE Null,
              end |-> IF role THEN f + 1 ELSE e]
        ELSE NoMatch

\* one attempt of relationshipRegex at position i
RelationshipMatchAt(s, i) ==
    LET c == SkipWs(s, i + 1)
        b == SkipWs(s, c + 1)
        from == EndpointAt(s, SkipWs(s, b + 1))
        t == IF from.ok THEN SkipWs(s, from.end) ELSE 0
        u == SkipWs(s, t + 1)
        to == IF from.ok THEN EndpointAt(s, u) ELSE NoMatch
        z == IF to.ok THEN SkipWs(s, to.end) ELSE 0
    IN  IF /\ i <= Len(s) /\ s[i] = "relationship"
           /\ c > i + 1
           /\ c <= Len(s) /\ s[c] \in Cardinalities
           /\ b <= Len(s) /\ s[b] = "{"
           /\ from.ok
           /\ t > from.end
           /\ t <= Len(s) /\ s[t] = "to"
           /\ u > t + 1
           /\ to.ok
           /\ z <= Len(s) /\ s[z] = "}"
        THEN [ok |-> TRUE, end |-> z + 1,
              rel |-> [type |-> s[c],
                       from |-> [name |-> from.name, fieldName |-> from.fieldName],
                       to |-> [name |-> to.name, fieldName |-> to.fieldName]]]
        ELSE NoMatch

RECURSIVE ParseRelationships(_, _, _)
\* the while loop over relationshipRegex.exec(cleanContent), from lastIndex
ParseRelationships(s, lastIndex, acc) ==
    LET i == FindTok(s, lastIndex, "relationship")
        m == RelationshipMatchAt(s, i)
    IN  IF i = 0 THEN acc
        ELSE IF ~m.ok THEN ParseRelationships(s, i + 1, acc)
        ELSE IF isCommented(s, i) THEN ParseRelationships(s, m.end, acc)
        ELSE ParseRelationships(s, m.end, Append(acc, m.rel))

\* parseJdl(jdlContent)
parseJdl(jdlContent) ==
    LET cleanContent == StripBlockComments(jdlContent)
        tokens == Tokens(cleanContent)
        enumObj == ParseEnums(tokens, 1, EmptyObject)
        entityObj == ParseEntities(tokens, 1, enumObj, EmptyObject)
    IN  [entities |-> ObjectValues(entityObj),
         enums |-> ObjectValues(enumObj),
         relationships |-> ParseRelationships(tokens, 1, <<>>)]

-----------------------------------------------------------------------------
(* Documents *)

RECURSIVE Words(_)
\* the words of a line, one space between them
Words(ws) ==
    IF Len(ws) <= 1 THEN ws ELSE <<Head(ws), SP>> \o Words(Tail(ws))

RECURSIVE Lines(_)
\* lines, each ended by a newline
Lines(ls) ==
    IF ls = <<>> THEN <<>> ELSE Head(ls) \o <<NL>> \o Lines(Tail(ls))

\* a declared field, as written
Decl(n, t, rules, c) ==
    [fieldName |-> n, fieldType |-> t, fieldValidateRules |-> rules, comment |-> c]

GhostDecls ==
    << Words(<<"entity", "G", "{", "x", "String", "}">>),
       Words(<<"enum", "G", "{", "P", "}">>),
       Words(<<"relationship", "OneToOne", "{", "G", "to", "A", "}">>) >>

\* The pieces documents are made of.  kind, name, audit, fields and values say
\* what the piece declares to a reader of JDL; kind "none" declares nothing
\* (comments only).
Item ==
    << \* 1: entity A { x String required }
       [tokens |-> Lines(<< Words(<<"entity", "A", "{">>),
                           <<SP, SP>> \o Words(<<"x", "String", "required">>),
                           <<"}">> >>),
        kind |-> "entity", name |-> "A", audit |-> FALSE,
        fields |-> <<Decl("x", "String", <<"required">>, Null)>>,
        values |-> <<>>],
       \* 2: entity A with an enum-typed field, the field line written twice
       [tokens |-> Lines(<< Words(<<"entity", "A", "{">>),
                           <<SP, SP>> \o Words(<<"y", "E">>),
                           <<SP, SP>> \o Words(<<"y", "E">>),
                           <<"}">> >>),
        kind |-> "entity", name |-> "A", audit |-> FALSE,
        fields |-> <<Decl("y", "E", <<>>, Null), Decl("y", "E", <<>>, Null)>>,
        values |-> <<>>],
       \* 3: @EnableAudit entity B { id Long required // key }
       [tokens |-> Lines(<< <<"@EnableAudit">>,
                           Words(<<"entity", "B", "{">>),
                           <<SP, SP>> \o Words(<<"id", "Long", "required", "/">>)
                               \o Words(<<"/", "key">>),
                           <<"}">> >>),
        kind |-> "entity", name |-> "B", audit |-> TRUE,
        fields |-> <<Decl("id", "Long", <<"required">>, Some("key"))>>,
        values |-> <<>>],
       \* 4: @EnableAudit entity A { createdBy String }
       [tokens |-> Lines(<< <<"@EnableAudit">>,
                           Words(<<"entity", "A", "{">>),
                           <<SP, SP>> \o Words(<<"createdBy", "String">>),
                           <<"}">> >>),
        kind |-> "entity", name |-> "A", audit |-> TRUE,
        fields |-> <<Decl("createdBy", "String", <<>>, Null)>>,
        values |-> <<>>],
       \* 5: enum E { P, Q(q) }
       [tokens |-> Lines(<< Words(<<"enum", "E", "{", "P">>)
                               \o <<",", SP, "Q", "(", "q", ")", SP, "}">> >>),
        kind |-> "enum", name |-> "E", audit |-> FALSE, fields |-> <<>>,
        values |-> <<"P", "Q">>],
       \* 6: enum E with the value Q commented out on a line of its own
       [tokens |-> Lines(<< Words(<<"enum", "E", "{">>),
                           <<SP, SP, "P", ",">>,
                           <<SP, SP, "/", "/", SP, "Q", ",">>,
                           <<SP, SP, "R">>,
                           <<"}">> >>),
        kind |-> "enum", name |-> "E", audit |-> FALSE, fields |-> <<>>,
        values |-> <<"P", "R">>],
       \* 7: three line-commented declarations of G, the second behind a
       \*    no-break space, the third behind a vertical tab and a space
       [tokens |-> Lines(<< <<"/", "/", SP>> \o GhostDecls[1],
                           <<"\\u00A0", "/", "/", SP>> \o GhostDecls[2],
                           <<VT, SP, "/", "/">> \o GhostDecls[3] >>),
        kind |-> "none", name |-> "", audit |-> FALSE, fields |-> <<>>,
        values |-> <<>>],
       \* 8: a block comment holding three declarations of G
       [tokens |-> Lines(<< <<"/", "*", SP>> \o GhostDecls[1],
                           GhostDecls[2],
                           GhostDecls[3] \o <<SP, "*", "/">> >>),
        kind |-> "none", name |-> "", audit |-> FALSE, fields |-> <<>>,
        values |-> <<>>],
       \* 9: relationship ManyToOne { A(b) to B(as) }
       \*    relationship OneToMany { B to A }
       [tokens |-> Lines(<< Words(<<"relationship", "ManyToOne", "{", "A">>)
                               \o <<"(", "b", ")", SP, "to", SP, "B", "(", "as", ")",
                                    SP, "}">>,
                           Words(<<"relationship", "OneToMany", "{", "B", "to",
                                   "A", "}">>) >>),
        kind |-> "relationship", name |-> "", audit |-> FALSE, fields |-> <<>>,
        values |-> <<>>],
       \* 10: relationship OneToOne { A to C(a) }
       [tokens |-> Lines(<< Words(<<"relationship", "OneToOne", "{", "A", "to",
                                   "C">>) \o <<"(", "a", ")", SP, "}">> >>),
        kind |-> "relationship", name |-> "", audit |-> FALSE, fields |-> <<>>,
        values |-> <<>>],
       \* 11: // @EnableAudit
       [tokens |-> Lines(<< <<"/", "/", SP, "@EnableAudit">> >>),
        kind |-> "none", name |-> "", audit |-> FALSE, fields |-> <<>>,
        values |-> <<>>],
       \* 12: // entity X {
       [tokens |-> Lines(<< <<"/", "/", SP>> \o Words(<<"entity", "X", "{">>) >>),
        kind |-> "none", name |-> "", audit |-> FALSE, fields |-> <<>>,
        values |-> <<>>],
       \* 13: //* c */ entity G { x String }
       [tokens |-> Lines(<< <<"/", "/", "*", SP, "c", SP, "*", "/", SP>>
                               \o GhostDecls[1] >>),
        kind |-> "none", name |-> "", audit |-> FALSE, fields |-> <<>>,
        values |-> <<>>],
       \* 14: entity C { z toString }
       [tokens |-> Lines(<< Words(<<"entity", "C", "{">>),
                           <<SP, SP>> \o Words(<<"z", "toString">>),
                           <<"}">> >>),
        kind |-> "entity", name |-> "C", audit |-> FALSE,
        fields |-> <<Decl("z", "toString", <<>>, Null)>>,
        values |-> <<>>],
       \* 15: @EnableAudit entity C with no declared field
       [tokens |-> Lines(<< <<"@EnableAudit">>,
                           Words(<<"entity", "C", "{">>),
                           <<"}">> >>),
        kind |-> "entity", name |-> "C", audit |-> TRUE, fields |-> <<>>,
        values |-> <<>>],
       \* 16: ent/**/ity 10 { n name }: the keyword around a block comment,
       \*     a name that is an array index
       [tokens |-> Lines(<< <<"ent", "/", "*", "*", "/", "ity", SP, "10", SP, "{">>,
                           <<SP, SP>> \o Words(<<"n", "name">>),
                           <<"}">> >>),
        kind |-> "entity", name |-> "10", audit |-> FALSE,
        fields |-> <<Decl("n", "name", <<>>, Null)>>,
        values |-> <<>>],
       \* 17: enum __proto__ { P }
       [tokens |-> Lines(<< Words(<<"enum", "__proto__", "{", "P", "}">>) >>),
        kind |-> "enum", name |-> "__proto__", audit |-> FALSE, fields |-> <<>>,
        values |-> <<"P">>] >>

ItemIds == DOMAIN Item

\* the text of piece i
ItemText(i) == Join(Item[i].tokens)

\* the longest document of Spec, in items
MaxItems == 3

-----------------------------------------------------------------------------
(* The parser on every document of at most MaxItems items *)

NoTasks == <<>>

Init ==
    /\ items = <<>>
    /\ doc = ""
    /\ pc = "input"
    /\ entities = <<>>
    /\ enums = <<>>
    /\ relationships = <<>>
    /\ tsType = <<>>
    /\ wrote = {}
    /\ read = {}
    /\ tpc = NoTasks
    /\ tk = NoTasks
    /\ ctx = NoTasks
    /\ files = {}
    /\ running = 0

\* the author writes one more piece
AppendItem(i) ==
    /\ pc = "input"
    /\ Len(items) < MaxItems
    /\ items' = Append(items, i)
    /\ doc' = doc \o ItemText(i)
    /\ UNCHANGED <<pc, entities, enums, relationships, tsType, wrote, read,
                   tpc, tk, ctx, files, running>>

\* const { entities, enums, relationships } = parseJdl(jdlContent)
Parse ==
    /\ pc = "input"
    /\ LET r == parseJdl(doc)
       IN  /\ entities' = r.entities
           /\ enums' = r.enums
           /\ relationships' = r.relationships
    /\ pc' = "parsed"
    /\ UNCHANGED <<items, doc, tsType, wrote, read, tpc, tk, ctx, files, running>>

Next ==
    \/ \E i \in ItemIds : AppendItem(i)
    \/ Parse

Spec == Init /\ [][Next]_vars

-----------------------------------------------------------------------------
(* What a document declares, read off the pieces it was written from *)

\* the positions in items of the uncommented declarations of name
DeclsOf(kind, name) ==
    {k \in DOMAIN items : Item[items[k]].kind = kind /\ Item[items[k]].name = name}

LastOf(S) == CHOOSE k \in S : \A j \in S : j <= k

\* the names the pieces declare
NamesOf(kind) == {Item[i].name : i \in {j \in ItemIds : Item[j].kind = kind}}

\* a parsed field as a declaration: everything but the object identity and
\* the enum flag
AsDecl(f) == Decl(f.fieldName, f.fieldType, f.fieldValidateRules, f.comment)

AsDecls(fs) == [k \in DOMAIN fs |-> AsDecl(fs[k])]

\* the four audit fields, as the specification lists them
AuditDecls ==
    << Decl("createdBy", "String", <<>>, Null),
       Decl("createdDate", "Instant", <<>>, Null),
       Decl("lastModifiedBy", "String", <<>>, Null),
       Decl("lastModifiedDate", "Instant", <<>>, Null) >>

\* the fields an entity declaration stands for
Declared(k) ==
    Item[items[k]].fields \o (IF Item[items[k]].audit THEN AuditDecls ELSE <<>>)

ValueNames(vs) == [k \in DOMAIN vs |-> vs[k].name]

\* a parse result without object identities
NoOid(f) == [fieldName |-> f.fieldName, fieldType |-> f.fieldType,
             fieldTypeIsEnum |-> f.fieldTypeIsEnum,
             fieldValidateRules |-> f.fieldValidateRules, comment |-> f.comment]

Result(es, ens, rels) ==
    [entities |-> [k \in DOMAIN es |->
                     [name |-> es[k].name,
                      fields |-> [j \in DOMAIN es[k].fields |->
                                    NoOid(es[k].fields[j])]]],
     enums |-> ens,
     relationships |-> rels]

RECURSIVE TextLines(_, _)
\* the lines of a text from position i on
TextLines(str, i) ==
    LET p == IndexOf(str, NL, i)
    IN  IF p = 0 THEN <<SubSeq(str, i, Len(str))>>
        ELSE <<SubSeq(str, i, p - 1)>> \o TextLines(str, p + 1)

\* the first characters of a line that are no whitespace are "//"
IsCommentLine(line) ==
    StartsWithSlashes(TrimLeft(Tokens(line)))

RECURSIVE KeptLines(_)
KeptLines(ls) ==
    IF ls = <<>> THEN <<>>
    ELSE (IF IsCommentLine(Head(ls)) THEN <<>> ELSE <<Head(ls)>>)
             \o KeptLines(Tail(ls))

RECURSIVE JoinLines(_)
\* lines with a newline between them
JoinLines(ls) ==
    IF Len(ls) = 0 THEN ""
    ELSE IF Len(ls) = 1 THEN ls[1]
    ELSE JoinLines(SubSeq(ls, 1, Len(ls) \div 2)) \o NL
             \o JoinLines(SubSeq(ls, Len(ls) \div 2 + 1, Len(ls)))

\* the document without the lines whose first non-blank characters are "//"
WithoutCommentLines(d) == JoinLines(KeptLines(TextLines(d, 1)))

-----------------------------------------------------------------------------
(* Claims about parseJdl, checked under Spec *)

\* C1 (comment exclusion): a declaration written entirely inside a block
\* comment or on a line that starts with "//" is not in the result.  G is
\* declared only in such places, so the result holds no entity G, no enum G
\* and no relationship from G.
C1_CommentExclusion ==
    pc = "parsed" =>
        /\ \A k \in DOMAIN entities : entities[k].name # "G"
        /\ \A k \in DOMAIN enums : enums[k].name # "G"
        /\ \A k \in DOMAIN relationships : relationships[k].from.name # "G"

\* C2 (enum classification): a field is flagged fieldTypeIsEnum exactly when
\* its fieldType is the name of an enum extracted from the document.
C2_EnumFlagIffEnumName ==
    pc = "parsed" =>
        \A k \in DOMAIN entities : \A j \in DOMAIN entities[k].fields :
            LET f == entities[k].fields[j]
            IN  f.fieldTypeIsEnum
                    <=> \E n \in DOMAIN enums : enums[n].name = f.fieldType

\* C3 (audit injection): every returned entity whose name the document
\* declares carries the fields of one of those declarations, followed by the
\* four audit fields, in order, exactly when that declaration is annotated
\* with @EnableAudit, and by nothing otherwise.
C3_AuditInjection ==
    pc = "parsed" =>
        \A k \in DOMAIN entities :
            LET ds == DeclsOf("entity", entities[k].name)
                fs == AsDecls(entities[k].fields)
            IN  ds # {} =>
                    \E d \in ds :
                        IF Item[items[d]].audit
                        THEN fs = Item[items[d]].fields \o AuditDecls
                        ELSE fs = Item[items[d]].fields

\* C3 witness: an annotated entity with one declared field, an annotated
\* entity with none, and an entity without the annotation, all parsed.
C3_Witness ==
    /\ pc = "parsed"
    /\ \E k \in DOMAIN entities :
           /\ entities[k].name = "B"
           /\ Len(entities[k].fields) = 5
           /\ DeclsOf("entity", "B") # {}
    /\ \E k \in DOMAIN entities :
           /\ entities[k].name = "C"
           /\ AsDecls(entities[k].fields) = AuditDecls
           /\ DeclsOf("entity", "C") # {}
    /\ \E k \in DOMAIN entities :
           /\ entities[k].name = "A"
           /\ Len(entities[k].fields) = 1
           /\ DeclsOf("entity", "A") # {}

\* C4 (last writer wins): no two returned entities and no two returned enums
\* share a name, and a name declared more than once is returned with the
\* fields (or values) of its textually last declaration.
C4_LastWriterWins ==
    pc = "parsed" =>
        /\ \A j, k \in DOMAIN entities :
               entities[j].name = entities[k].name => j = k
        /\ \A j, k \in DOMAIN enums : enums[j].name = enums[k].name => j = k
        /\ \A n \in NamesOf("entity") :
               LET ds == DeclsOf("entity", n)
               IN  Cardinality(ds) > 1 =>
                       \E k \in DOMAIN entities :
                           /\ entities[k].name = n
                           /\ AsDecls(entities[k].fields) = Declared(LastOf(ds))
        /\ \A n \in NamesOf("enum") :
               LET ds == DeclsOf("enum", n)
               IN  Cardinality(ds) > 1 =>
                       \E k \in DOMAIN enums :
                           /\ enums[k].name = n
                           /\ ValueNames(enums[k].values)
                                  = Item[items[LastOf(ds)]].values

\* C8 (line comments are no extractor's input): deleting the lines that start
\* with "//" leaves the entities, enums and relationships unchanged.
C8_CommentLinesIgnored ==
    pc = "parsed" =>
        LET r == parseJdl(WithoutCommentLines(doc))
        IN  Result(entities, enums, relationships)
                = Result(r.entities, r.enums, r.relationships)

\* C9 (field-name uniqueness): no two fields of a returned entity have the
\* same fieldName.
C9_FieldNamesUnique ==
    pc = "parsed" =>
        \A k \in DOMAIN entities :
            \A i, j \in DOMAIN entities[k].fields :
                entities[k].fields[i].fieldName = entities[k].fields[j].fieldName
                    => i = j

-----------------------------------------------------------------------------
(* The type mapper *)

\* getTsType's table with a JDL type mapped to another JDL type
typeMappings_chained ==
    ("String" :> "string") @@ ("Integer" :> "number") @@ ("Long" :> "number")
        @@ ("BigDecimal" :> "number") @@ ("Float" :> "Double")
        @@ ("Double" :> "number") @@ ("Boolean" :> "boolean")
        @@ ("LocalDate" :> "dayjs.Dayjs") @@ ("Instant" :> "dayjs.Dayjs")
        @@ ("ZonedDateTime" :> "dayjs.Dayjs") @@ ("TextBlob" :> "string")
        @@ ("UUID" :> "string")

\* const typeMappings = { ... }
typeMappings ==
    ("String" :> "string") @@ ("Integer" :> "number") @@ ("Long" :> "number")
        @@ ("BigDecimal" :> "number") @@ ("Float" :> "number")
        @@ ("Double" :> "number") @@ ("Boolean" :> "boolean")
        @@ ("LocalDate" :> "dayjs.Dayjs") @@ ("Instant" :> "dayjs.Dayjs")
        @@ ("ZonedDateTime" :> "dayjs.Dayjs") @@ ("TextBlob" :> "string")
        @@ ("UUID" :> "string")

\* the value a property inherited from Object.prototype has: a function or an
\* object, written as a text that is no key of any table
Inherited(key) == "[native " \o key \o "]"

\* getTsType(jdlType): typeMappings[jdlType] || jdlType
getTsType(jdlType) ==
    IF jdlType \in DOMAIN typeMappings THEN typeMappings[jdlType]
    ELSE IF jdlType \in ObjectPrototypeKeys THEN Inherited(jdlType)
    ELSE jdlType

-----------------------------------------------------------------------------
(* helpers *)

UpperLetters == "ABCDEFGHIJKLMNOPQRSTUVWXYZ"
LowerLetters == "abcdefghijklmnopqrstuvwxyz"

\* the lower-case letter of a capital letter, any other character as it is
LowerOf(c) ==
    IF \E d \in 1..26 : At(UpperLetters, d) = c
    THEN At(LowerLetters, CHOOSE d \in 1..26 : At(UpperLetters, d) = c)
    ELSE c

RECURSIVE toLowerCase(_)
\* String.prototype.toLowerCase, on a name (a run of \w characters)
toLowerCase(str) ==
    IF str = "" THEN ""
    ELSE LowerOf(At(str, 1)) \o toLowerCase(SubSeq(str, 2, Len(str)))

\* helpers.toKebabCase: _.kebabCase, on a name of one letter
toKebabCase(str) == toLowerCase(str)

\* helpers.toPascalCase: _.upperFirst(_.camelCase(str)), on a name of one
\* capital letter
toPascalCase(str) == str

-----------------------------------------------------------------------------
(* run(): one generation task per entity, then one per enum *)

\* the templates array of generateEntityFiles
NumTemplates == 8

\* the longest document of SpecRun, in items
MaxRunItems == 3

\* the pieces the documents of SpecRun are made of
RunItemIds == {1, 3, 4, 5, 9, 10}

RECURSIVE Text(_)
\* the text of a document given as pieces
Text(is) == IF is = <<>> THEN "" ELSE ItemText(Head(is)) \o Text(Tail(is))

RECURSIVE DocsUpTo(_)
\* the documents of at most n pieces
DocsUpTo(n) ==
    IF n = 0 THEN {<<>>}
    ELSE LET shorter == DocsUpTo(n - 1)
         IN  shorter \cup {Append(d, i) : d \in shorter, i \in RunItemIds}

RunDocs == DocsUpTo(MaxRunItems)

Tasks == DOMAIN tpc
IsEntityTask(t) == t \in DOMAIN entities
EnumOf(t) == enums[t - Len(entities)]

\* ejs.renderFile has been called for task t
RenderCalled(t) == tk[t] > 0

\* forEach reaches task t: every task before it has returned its promise
IsNext(t) ==
    /\ running = 0
    /\ t \in Tasks
    /\ tpc[t] = "new"
    /\ \A s \in Tasks : s < t => tpc[s] # "new"

InitRun ==
    /\ items \in RunDocs
    /\ doc = Text(items)
    /\ pc = "start"
    /\ entities = <<>>
    /\ enums = <<>>
    /\ relationships = <<>>
    /\ tsType = <<>>
    /\ wrote = {}
    /\ read = {}
    /\ tpc = NoTasks
    /\ tk = NoTasks
    /\ ctx = NoTasks
    /\ files = {}
    /\ running = 0

\* run(), from readFileSync to the first forEach; without entities it returns
RunParse ==
    /\ pc = "start"
    /\ LET r == parseJdl(doc)
       IN  /\ entities' = r.entities
           /\ enums' = r.enums
           /\ relationships' = r.relationships
    /\ IF Len(entities') = 0
       THEN /\ pc' = "exit"
            /\ UNCHANGED <<tpc, tk, ctx>>
       ELSE /\ pc' = "loop"
            /\ tpc' = [t \in 1..(Len(entities') + Len(enums')) |-> "new"]
            /\ tk' = [t \in 1..(Len(entities') + Len(enums')) |-> 0]
            /\ ctx' = [t \in 1..(Len(entities') + Len(enums')) |-> Null]
    /\ UNCHANGED <<items, doc, tsType, wrote, read, files, running>>

\* the objects entity.fields holds
FieldOids(e) == {e.fields[j].oid : j \in DOMAIN e.fields}

\* the fieldType of the object o of e.fields
TypeOfOid(e, o) ==
    LET j == CHOOSE j \in DOMAIN e.fields : e.fields[j].oid = o
    IN  e.fields[j].fieldType

\* generateEntityFiles(config, entity, allRelationships) is called:
\* entity.fields.forEach(field => field.tsType = getTsType(field.fieldType))
AttachTypes(t) ==
    /\ pc = "loop"
    /\ IsNext(t)
    /\ IsEntityTask(t)
    /\ LET e == entities[t]
           os == FieldOids(e)
       IN  /\ tsType' = [o \in DOMAIN tsType \cup os |->
                           IF o \in os THEN getTsType(TypeOfOid(e, o))
                           ELSE tsType[o]]
           /\ wrote' = wrote \cup {<<o, t>> : o \in os}
    /\ tpc' = [tpc EXCEPT ![t] = "typed"]
    /\ running' = t
    /\ UNCHANGED <<items, doc, pc, entities, enums, relationships, read, tk,
                   ctx, files>>

\* rel => ({ ...rel, otherEntityName, otherEntityNamePascalCase,
\*           otherEntityNamePlural })
Annotate(rel) ==
    [type |-> rel.type, from |-> rel.from, to |-> rel.to,
     otherEntityName |-> rel.to.name,
     otherEntityNamePascalCase |-> toPascalCase(rel.to.name),
     otherEntityNamePlural |-> toLowerCase(rel.to.name) \o "s"]

\* the filter with the entity looked for at the other endpoint
BelongsTo_other(rel, entity) == rel.to.name = entity.name

\* rel => rel.from.name === entity.name
BelongsTo(rel, entity) == rel.from.name = entity.name

RECURSIVE FilterMap(_, _)
\* allRelationships.filter(...).map(...)
FilterMap(rels, entity) ==
    IF rels = <<>> THEN <<>>
    ELSE (IF BelongsTo(Head(rels), entity) THEN <<Annotate(Head(rels))>>
          ELSE <<>>) \o FilterMap(Tail(rels), entity)

\* const entityConfig = { ...helpers, entity, config, relationships: ... }
AssembleContext(t) ==
    /\ running = t
    /\ tpc[t] = "typed"
    /\ ctx' = [ctx EXCEPT ![t] =
                 Some([entity |-> entities[t],
                       relationships |-> FilterMap(relationships, entities[t])])]
    /\ tpc' = [tpc EXCEPT ![t] = "assembled"]
    /\ UNCHANGED <<items, doc, pc, entities, enums, relationships, tsType,
                   wrote, read, tk, files, running>>

\* where run() stands once task t has returned its promise
AfterCall(t) == IF t = Len(tpc) THEN "await" ELSE "loop"

\* fs.ensureDirSync(outputBaseDir) returns and the loop over templates runs
\* up to its first await: ejs.renderFile(templatePath, entityConfig) is called
\* and reads the context, generateEntityFiles returns its promise to run()
CallRender(t) ==
    /\ running = t
    /\ tpc[t] = "assembled"
    /\ read' = read \cup {<<o, t>> : o \in FieldOids(entities[t])}
    /\ tk' = [tk EXCEPT ![t] = 1]
    /\ tpc' = [tpc EXCEPT ![t] = "awaiting"]
    /\ running' = 0
    /\ pc' = AfterCall(t)
    /\ UNCHANGED <<items, doc, entities, enums, relationships, tsType, wrote,
                   ctx, files>>

\* fs.ensureDirSync(outputBaseDir) throws: generateEntityFiles returns a
\* rejected promise to run() and has called no render; forEach goes on
EnsureDirFails(t) ==
    /\ running = t
    /\ tpc[t] = "assembled"
    /\ tpc' = [tpc EXCEPT ![t] = "rejected"]
    /\ running' = 0
    /\ pc' = AfterCall(t)
    /\ UNCHANGED <<items, doc, entities, enums, relationships, tsType, wrote,
                   read, tk, ctx, files>>

\* generateEnumFile(config, enumDef), up to its await: the context is made
\* and ejs.renderFile(templatePath, enumConfig) is called
GenerateEnumFile(t) ==
    /\ pc = "loop"
    /\ IsNext(t)
    /\ ~IsEntityTask(t)
    /\ ctx' = [ctx EXCEPT ![t] = Some([enumDef |-> EnumOf(t)])]
    /\ tk' = [tk EXCEPT ![t] = 1]
    /\ tpc' = [tpc EXCEPT ![t] = "awaiting"]
    /\ pc' = AfterCall(t)
    /\ UNCHANGED <<items, doc, entities, enums, relationships, tsType, wrote,
                   read, files, running>>

\* the promises of the tasks are settled while run() awaits Promise.all, and
\* after it has been rejected: nothing cancels a task
Settling == pc \in {"await", "failed"}

\* the promise of ejs.renderFile is fulfilled for an entity's template: the
\* file is written and the next template, if any, is rendered
ResumeEntity(t) ==
    /\ Settling
    /\ t \in Tasks
    /\ IsEntityTask(t)
    /\ tpc[t] = "awaiting"
    /\ files' = files \cup {<<"entities", toKebabCase(entities[t].name), tk[t]>>}
    /\ IF tk[t] = NumTemplates
       THEN /\ tpc' = [tpc EXCEPT ![t] = "done"]
            /\ UNCHANGED <<tk, read>>
       ELSE /\ tk' = [tk EXCEPT ![t] = tk[t] + 1]
            /\ read' = read \cup {<<o, t>> : o \in FieldOids(entities[t])}
            /\ UNCHANGED tpc
    /\ UNCHANGED <<items, doc, pc, entities, enums, relationships, tsType,
                   wrote, ctx, running>>

\* the promise of ejs.renderFile is rejected for an entity's template, or
\* fs.ensureDirSync(finalSubfolder), ejs.render or fs.writeFileSync throws:
\* the promise of the task is rejected and no file is written
RejectEntity(t) ==
    /\ Settling
    /\ t \in Tasks
    /\ IsEntityTask(t)
    /\ tpc[t] = "awaiting"
    /\ tpc' = [tpc EXCEPT ![t] = "rejected"]
    /\ UNCHANGED <<items, doc, pc, entities, enums, relationships, tsType,
                   wrote, read, tk, ctx, files, running>>

\* the promise of ejs.renderFile is fulfilled for an enum's template: the
\* file is written
ResumeEnum(t) ==
    /\ Settling
    /\ t \in Tasks
    /\ ~IsEntityTask(t)
    /\ tpc[t] = "awaiting"
    /\ files' = files \cup {<<"enums", toKebabCase(EnumOf(t).name), 1>>}
    /\ tpc' = [tpc EXCEPT ![t] = "done"]
    /\ UNCHANGED <<items, doc, pc, entities, enums, relationships, tsType,
                   wrote, read, tk, ctx, running>>

\* the promise of ejs.renderFile is rejected for an enum's template, or
\* fs.ensureDirSync(outputDir) or fs.writeFileSync throws
RejectEnum(t) ==
    /\ Settling
    /\ t \in Tasks
    /\ ~IsEntityTask(t)
    /\ tpc[t] = "awaiting"
    /\ tpc' = [tpc EXCEPT ![t] = "rejected"]
    /\ UNCHANGED <<items, doc, pc, entities, enums, relationships, tsType,
                   wrote, read, tk, ctx, files, running>>

\* await Promise.all(generationPromises) returns: every promise is fulfilled
Finish ==
    /\ pc = "await"
    /\ \A t \in Tasks : tpc[t] = "done"
    /\ pc' = "done"
    /\ UNCHANGED <<items, doc, entities, enums, relationships, tsType, wrote,
                   read, tpc, tk, ctx, files, running>>

\* await Promise.all(generationPromises) throws: a promise is rejected, run()
\* is rejected and run().catch reports the error
Abort ==
    /\ pc = "await"
    /\ \E t \in Tasks : tpc[t] = "rejected"
    /\ pc' = "failed"
    /\ UNCHANGED <<items, doc, entities, enums, relationships, tsType, wrote,
                   read, tpc, tk, ctx, files, running>>

NextRun ==
    \/ RunParse
    \/ \E t \in Tasks : AttachTypes(t)
    \/ \E t \in Tasks : AssembleContext(t)
    \/ \E t \in Tasks : CallRender(t)
    \/ \E t \in Tasks : EnsureDirFails(t)
    \/ \E t \in Tasks : GenerateEnumFile(t)
    \/ \E t \in Tasks : ResumeEntity(t)
    \/ \E t \in Tasks : RejectEntity(t)
    \/ \E t \in Tasks : ResumeEnum(t)
    \/ \E t \in Tasks : RejectEnum(t)
    \/ Finish
    \/ Abort

SpecRun == InitRun /\ [][NextRun]_vars

-----------------------------------------------------------------------------
(* Claims about run() and getTsType, checked under SpecRun *)

\* a relationship of a render context without its annotations
Core(rel) == [type |-> rel.type, from |-> rel.from, to |-> rel.to]

\* the positions in relationships of the relationships that start at name
OwnPositions(name) ==
    {k \in DOMAIN relationships : relationships[k].from.name = name}

\* the i-th smallest element of S
Nth(S, i) == CHOOSE k \in S : Cardinality({j \in S : j <= k}) = i

\* C5 (relationship filtering): the relationship list of entity E's render
\* context holds the parsed relationships whose from.name is E.name, one
\* entry per occurrence, in the order of the parsed sequence, and no other.
C5_RelationshipFiltering ==
    \A t \in Tasks :
        (IsEntityTask(t) /\ ctx[t] # Null) =>
            LET own == OwnPositions(entities[t].name)
                out == ctx[t][1].relationships
            IN  /\ Len(out) = Cardinality(own)
                /\ \A i \in DOMAIN out :
                       Core(out[i]) = relationships[Nth(own, i)]

\* C5 witness: a context with two relationships, the same declaration
\* written twice, taken from four parsed ones; the other two have the entity
\* as their `to` endpoint only.
C5_Witness ==
    \E t \in Tasks :
        /\ IsEntityTask(t)
        /\ ctx[t] # Null
        /\ Len(ctx[t][1].relationships) = 2
        /\ ctx[t][1].relationships[1] = ctx[t][1].relationships[2]
        /\ Len(relationships) = 4
        /\ \E k \in DOMAIN relationships :
               /\ relationships[k].to.name = entities[t].name
               /\ relationships[k].from.name # entities[t].name

\* the context of task t is fully assembled: types attached to every field,
\* relationship list computed
Assembled(t) ==
    /\ ctx[t] # Null
    /\ IsEntityTask(t) =>
           \A o \in FieldOids(entities[t]) :
               /\ o \in DOMAIN tsType
               /\ tsType[o] = getTsType(TypeOfOid(entities[t], o))

\* C6 (assembly before rendering): once a template render call of any task
\* has been made, the context of every task is fully assembled.
C6_AllAssembledBeforeAnyRender ==
    (\E t \in Tasks : RenderCalled(t)) => \A t \in Tasks : Assembled(t)

\* the type names getTsType is tried on: the table's keys and values, the
\* inherited property names, enum and custom names, the empty name
TypeNames ==
    DOMAIN typeMappings \cup {typeMappings[k] : k \in DOMAIN typeMappings}
        \cup ObjectPrototypeKeys
        \cup {"", "E", "Status", "string", "Number", "List<E>", "long"}
        \cup UNION {{entities[k].fields[j].fieldType :
                        j \in DOMAIN entities[k].fields} : k \in DOMAIN entities}

\* C7 (idempotent type mapping): getTsType(getTsType(t)) = getTsType(t) for
\* every type name, every value of the table is mapped to itself, and so is
\* every tsType attached to a field.
C7_IdempotentTypeMapping ==
    /\ \A n \in TypeNames : getTsType(getTsType(n)) = getTsType(n)
    /\ \A k \in DOMAIN typeMappings : getTsType(typeMappings[k]) = typeMappings[k]
    /\ \A o \in DOMAIN tsType : getTsType(tsType[o]) = tsType[o]

\* C7 witness: getTsType has mapped a Long field to number and an Instant
\* field to dayjs.Dayjs.
C7_Witness ==
    \E t \in Tasks :
        /\ IsEntityTask(t)
        /\ \E j, k \in DOMAIN entities[t].fields :
               LET f == entities[t].fields[j]
                   g == entities[t].fields[k]
               IN  /\ f.oid \in DOMAIN tsType /\ g.oid \in DOMAIN tsType
                   /\ f.fieldType = "Long" /\ tsType[f.oid] = "number"
                   /\ g.fieldType = "Instant" /\ tsType[g.oid] = "dayjs.Dayjs"

\* C10 (render-task independence): no object written by one task is read or
\* written by another task.
C10_NoSharedMutableState ==
    \A w \in wrote : \A a \in wrote \cup read : w[1] = a[1] => w[2] = a[2]

=============================================================================
